---- MODULE Spec2Model ----
(***************************************************************************)
(* The OBJ writer of forge-convert-utils (Writer.write and its helpers    *)
(* nodeTransform, getObjectNodes, writeObjects, getRootScale).            *)
(*                                                                         *)
(* Numbers.  Scene coordinates, matrix elements and quaternions are       *)
(* integers here and arithmetic is exact (no IEEE rounding).  A rounded   *)
(* output coordinate is held as the integer Math.round produced: a vertex *)
(* coordinate in units of 1/10000 (myFixed4), a normal coordinate in      *)
(* units of 1/100 (myFixed2).  The root scale is held in units of         *)
(* 1/10000 as well (0.01 is 100, 1.0 is 10000).                           *)
(*                                                                         *)
(* Files.  A file's content is a sequence of tokens: one token per text   *)
(* line and the token NL for each "\n" character.                         *)
(***************************************************************************)
EXTENDS Integers, Sequences, FiniteSets, TLC

\* Longest scene (number of nodes) drawn by Init.
MaxNodes == 3
\* Largest absolute vertex coordinate drawn by InitVertex.
MaxCoord == 1
\* The flush threshold of writeObjects (output.length > 50000).
THRESHOLD == 50000

VARIABLES
    nodes,          \* imf.getNode(i): the scene's nodes, in scene order (node i is nodes[i+1])
    geometries,     \* imf.getGeometry(ref): geometry ref g is geometries[g]
    metadata,       \* imf.getMetadata()['distance unit']
    propdb,         \* the optional PropDbReader handed to write
    skipNormals,    \* options.skipNormals
    threshold,      \* the flush threshold writeObjects compares output.length with
    dirExists,      \* whether outputDir exists
    fs,             \* the two output files: path -> [exists, data]
    pc,             \* position in write
    rootScale,      \* const rootScale of write
    i,              \* loop index of getObjectNodes
    buildingNodes,  \* Map<string, NodeID[]> of getObjectNodes, in insertion order
    openingNodes,   \* Map<string, NodeID[]> of getObjectNodes, in insertion order
    phase,          \* which writeObjects call of write is running
    gidx,           \* objectNodes.forEach: groups already iterated
    nidx,           \* nodes.forEach: members of the current group already iterated
    output,         \* let output : string[] of writeObjects
    indexOffset,    \* let indexOffset of writeObjects
    log,            \* messages handed to options.log, in order
    written,        \* history: per path, the node ids whose mesh was written, in order
    pushed,         \* history: per path, every line pushed to output, in order
    before          \* history: the output files as write found them

vars == <<nodes, geometries, metadata, propdb, skipNormals, threshold, dirExists, fs,
          pc, rootScale, i, buildingNodes, openingNodes, phase, gidx, nidx, output,
          indexOffset, log, written, pushed, before>>

inputs == <<nodes, geometries, metadata, propdb, skipNormals, threshold, before>>

-----------------------------------------------------------------------------
(* JavaScript numbers that a division can produce *)

Num(n) == [k |-> "num", v |-> n]
NaN == [k |-> "nan", v |-> 0]
Infinity(s) == [k |-> "inf", v |-> s]

Sign(a) == IF a < 0 THEN -1 ELSE IF a > 0 THEN 1 ELSE 0

\* Math.round(a / b) for b > 0: the nearest integer, a tie going up.
RoundPos(a, b) == (2 * a + b) \div (2 * b)

\* Math.round(a / b) as JavaScript evaluates it, b = 0 included.
MathRound(a, b) ==
    IF b = 0 THEN (IF a = 0 THEN NaN ELSE Infinity(Sign(a)))
    ELSE IF b < 0 THEN Num(RoundPos(-a, -b))
    ELSE Num(RoundPos(a, b))

\* Math.sqrt on the sums of squares the model meets (exact on perfect squares).
Sqrt(n) == CHOOSE r \in 0..n : r * r <= n /\ n < (r + 1) * (r + 1)

-----------------------------------------------------------------------------
(* THREE.Matrix4 and THREE.Vector3 as nodeTransform and writeObjects use them.
   A matrix is its elements array (column-major), te[k] being element k-1. *)

Identity == <<1, 0, 0, 0,  0, 1, 0, 0,  0, 0, 1, 0,  0, 0, 0, 1>>

\* Matrix4.set(n11, n12, n13, n14, n21, ...): the arguments are taken in
\* row-major order and stored column-major.
Matrix4Set(a) == [k \in 1..16 |-> a[((k - 1) % 4) * 4 + ((k - 1) \div 4) + 1]]

\* Matrix4.makeRotationFromQuaternion(q), q = <<x, y, z, w>>.
MakeRotationFromQuaternion(q) ==
    LET x == q[1]  y == q[2]  z == q[3]  w == q[4]
        x2 == x + x  y2 == y + y  z2 == z + z
        xx == x * x2  xy == x * y2  xz == x * z2
        yy == y * y2  yz == y * z2  zz == z * z2
        wx == w * x2  wy == w * y2  wz == w * z2
    IN << 1 - (yy + zz), xy + wz, xz - wy, 0,
          xy - wz, 1 - (xx + zz), yz + wx, 0,
          xz + wy, yz - wx, 1 - (xx + yy), 0,
          0, 0, 0, 1 >>

\* Matrix4.scale(v): column c is multiplied by v's component c.
Matrix4Scale(te, v) ==
    [k \in 1..16 |-> IF k <= 12 THEN te[k] * v[((k - 1) \div 4) + 1] ELSE te[k]]

\* Matrix4.setPosition(x, y, z).
SetPosition(te, t) ==
    [k \in 1..16 |-> IF k \in 13..15 THEN t[k - 12] ELSE te[k]]

\* Writer.nodeTransform.
NodeTransform(node) ==
    LET tr == node.transform IN
    IF tr.kind = "Matrix" THEN Matrix4Set(tr.elements)
    ELSE IF tr.kind = "Decomposed" THEN
        LET m1 == IF tr.rotation # <<>> THEN MakeRotationFromQuaternion(tr.rotation)
                  ELSE Identity
            m2 == IF tr.scale # <<>> THEN Matrix4Scale(m1, tr.scale) ELSE m1
        IN IF tr.translation # <<>> THEN SetPosition(m2, tr.translation) ELSE m2
    ELSE Identity

\* Vector3.applyMatrix4(m) before its division by w: <<x, y, z, w>>.
ApplyMatrix4(p, e) ==
    << e[1] * p[1] + e[5] * p[2] + e[9] * p[3] + e[13],
       e[2] * p[1] + e[6] * p[2] + e[10] * p[3] + e[14],
       e[3] * p[1] + e[7] * p[2] + e[11] * p[3] + e[15],
       e[4] * p[1] + e[8] * p[2] + e[12] * p[3] + e[16] >>

\* myFixed4 of one coordinate of pos.applyMatrix4(transform).multiplyScalar(rootScale):
\* Math.round((n / w) * scale * 10000), the scale being held in 1/10000.
MyFixed4(n, w, scale) == MathRound(n * scale, w)

\* The length of column c (0..2) of a matrix, as extractRotation takes it.
ColumnLength(e, c) ==
    Sqrt(e[4 * c + 1] * e[4 * c + 1] + e[4 * c + 2] * e[4 * c + 2]
         + e[4 * c + 3] * e[4 * c + 3])

\* myFixed2 of coordinate r (1..3) of n.applyMatrix4(rotation), where rotation is
\* new Matrix4().extractRotation(transform): column c of transform divided by its
\* length, no translation.  A column of length 0 makes the coordinate NaN.
MyFixed2Rotated(n, e, r) ==
    LET l0 == ColumnLength(e, 0)  l1 == ColumnLength(e, 1)  l2 == ColumnLength(e, 2)
    IN IF l0 = 0 \/ l1 = 0 \/ l2 = 0 THEN NaN
       ELSE MathRound(100 * (e[r] * n[1] * l1 * l2 + e[4 + r] * n[2] * l0 * l2
                             + e[8 + r] * n[3] * l0 * l1),
                      l0 * l1 * l2)

-----------------------------------------------------------------------------
(* Lines and files *)

NL == [t |-> "NL"]

\* "o " + id
ObjectLine(id) == [t |-> "o", id |-> id]

\* `v ${myFixed4(pos.x)} ${myFixed4(pos.y)} ${myFixed4(pos.z)}`
VertexLine(p, transform, scale) ==
    LET h == ApplyMatrix4(p, transform)
    IN [t |-> "v", c |-> << MyFixed4(h[1], h[4], scale), MyFixed4(h[2], h[4], scale),
                            MyFixed4(h[3], h[4], scale) >>]

\* `vn ${myFixed2(n.x)} ${myFixed2(n.y)} ${myFixed2(n.z)}`
NormalLine(n, transform) ==
    [t |-> "vn", c |-> << MyFixed2Rotated(n, transform, 1), MyFixed2Rotated(n, transform, 2),
                          MyFixed2Rotated(n, transform, 3) >>]

\* faceString(f0, f1, f2, withNormals)
FaceString(f0, f1, f2, withNormals) ==
    [t |-> "f", idx |-> <<f0, f1, f2>>, normals |-> withNormals]

\* lines.join("\n")
Join(lines) ==
    [k \in 1..(IF lines = <<>> THEN 0 ELSE 2 * Len(lines) - 1) |->
        IF k % 2 = 1 THEN lines[(k + 1) \div 2] ELSE NL]

AbsentFile == [exists |-> FALSE, data |-> <<>>]

\* A slip: the file is opened for appending.
WriteFileSyncAppending(file, data) == [exists |-> TRUE, data |-> file.data \o data]

\* fse.writeFileSync(path, data)
WriteFileSync(file, data) == [exists |-> TRUE, data |-> data]

\* A slip: the data replaces what the file held.
AppendFileSyncOverwriting(file, data) == [exists |-> TRUE, data |-> data]

\* fse.appendFileSync(path, data)
AppendFileSync(file, data) == [exists |-> TRUE, data |-> file.data \o data]

-----------------------------------------------------------------------------
(* The scene, the property database and the options write is called with *)

NoTransform == [kind |-> "None"]
MatrixTransform(e) == [kind |-> "Matrix", elements |-> e]
DecomposedTransform(r, s, t) ==
    [kind |-> "Decomposed", rotation |-> r, scale |-> s, translation |-> t]

\* A column-major translation matrix: the translation in elements[12..14].
Translation(t) == <<1, 0, 0, 0,  0, 1, 0, 0,  0, 0, 1, 0,  t[1], t[2], t[3], 1>>

Mesh(vertices, indices, hasNormals, normals) ==
    [kind |-> "Mesh", vertices |-> vertices, indices |-> indices,
     normals |-> [present |-> hasNormals, data |-> normals]]
LinesGeometry == [kind |-> "Lines", vertices |-> <<>>, indices |-> <<>>,
                  normals |-> [present |-> FALSE, data |-> <<>>]]

Triangle == <<0, 0, 0,  1, 0, 0,  0, 1, 0>>

\* The geometries of the scenes Init draws: a triangle with normals, the same
\* triangle without normals, and a geometry that is not a mesh.
SceneGeometries ==
    << Mesh(Triangle, <<0, 1, 2>>, TRUE, <<0, 0, 1,  0, 0, 1,  0, 0, 1>>),
       Mesh(Triangle, <<0, 1, 2>>, FALSE, <<>>),
       LinesGeometry >>

ObjectNode(dbid, geometry, transform) ==
    [kind |-> "Object", dbid |-> dbid, geometry |-> geometry, transform |-> transform]
GroupNode == [kind |-> "Group", dbid |-> 0, geometry |-> 0, transform |-> NoTransform]

\* The nodes the scenes of Init are built from.
NodeCatalog ==
    { ObjectNode(1, 1, NoTransform),
      ObjectNode(2, 2, MatrixTransform(Translation(<<2, 0, 0>>))),
      ObjectNode(3, 3, NoTransform),
      ObjectNode(4, 1, DecomposedTransform(<<0, 0, 1, 0>>, <<2, 1, 1>>, <<0, 0, 3>>)),
      GroupNode }

Scenes == UNION { [1..n -> NodeCatalog] : n \in 0..MaxNodes }

NoProps == [k \in {} |-> ""]
Found(v) == [some |-> TRUE, v |-> v]
NotFound == [some |-> FALSE, v |-> ""]

NoDb == [present |-> FALSE, props |-> <<>>, found |-> <<>>]

\* A property database: getProperties(dbid) is props[dbid]; found[dbid] is what
\* findPropertyRecursive(dbid, ['IFC:GLOBALID', 'Element:IfcGUID']) returns.
SceneDb ==
    [present |-> TRUE,
     props |-> << ("Element:IfcExportAs" :> "IfcOpeningElement"),
                  ("Element:IfcExportAs" :> "IfcWall"),
                  NoProps,
                  ("Element:IfcExportAs" :> "ifcopeningelement") >>,
     found |-> << Found("G1"), Found("G1"), NotFound, Found("G1") >>]

NoUnit == [present |-> FALSE, value |-> ""]
Unit(s) == [present |-> TRUE, value |-> s]

OutputPath == "output.obj"
OpeningPath == "openings.obj"
Paths == {OutputPath, OpeningPath}

StaleData == <<ObjectLine("stale"), NL>>

\* What outputDir holds before write: nothing (no directory), or both files left by
\* an earlier run.
FileSystems ==
    { [dir |-> FALSE, files |-> [p \in Paths |-> AbsentFile]],
      [dir |-> TRUE, files |-> [p \in Paths |-> [exists |-> TRUE, data |-> StaleData]]] }

Thresholds == {1, 4, THRESHOLD}

-----------------------------------------------------------------------------
(* getRootScale *)

\* A slip: the unit is matched whatever its case.
GetRootScaleAnyCase(md) ==
    IF md.present /\ md.value # "" THEN
        CASE md.value \in {"centimeter", "cm", "CM"} -> 100
          [] md.value \in {"millimeter", "mm"} -> 10
          [] md.value \in {"foot", "ft"} -> 3048
          [] md.value \in {"inch", "in", "Inch"} -> 254
          [] OTHER -> 10000
    ELSE 10000

\* Writer.getRootScale, in units of 1/10000.
GetRootScale(md) ==
    IF md.present /\ md.value # "" THEN
        CASE md.value \in {"centimeter", "cm"} -> 100
          [] md.value \in {"millimeter", "mm"} -> 10
          [] md.value \in {"foot", "ft"} -> 3048
          [] md.value \in {"inch", "in"} -> 254
          [] OTHER -> 10000
    ELSE 10000

-----------------------------------------------------------------------------
(* getObjectNodes *)

\* A slip: any value of Element:IfcExportAs makes an opening.
IsOpeningAnyExport(db, dbid) ==
    /\ db.present
    /\ LET props == db.props[dbid] IN
        /\ "Element:IfcExportAs" \in DOMAIN props
        /\ props["Element:IfcExportAs"] # ""

\* props && props['Element:IfcExportAs'] && props['Element:IfcExportAs'] === 'IfcOpeningElement'
IsOpening(db, dbid) ==
    /\ db.present
    /\ LET props == db.props[dbid] IN
        /\ "Element:IfcExportAs" \in DOMAIN props
        /\ props["Element:IfcExportAs"] # ""
        /\ props["Element:IfcExportAs"] = "IfcOpeningElement"

\* A slip: the fallback key leaves the dbid out.
GroupIdWithoutDbid(db, dbid) ==
    IF db.present /\ db.found[dbid].some THEN db.found[dbid].v
    ELSE "dbid-"

\* propdb?.findPropertyRecursive(node.dbid, [...]) ?? `dbid-${node.dbid}`
GroupId(db, dbid) ==
    IF db.present /\ db.found[dbid].some THEN db.found[dbid].v
    ELSE "dbid-" \o ToString(dbid)

HasKey(map, id) == \E k \in 1..Len(map) : map[k].id = id

\* A slip: every node opens an entry of its own.
MapPushAlwaysSet(map, id, n) == Append(map, [id |-> id, nodes |-> <<n>>])

\* A slip: the index stored is the one after the node's.
MapPushNextIndex(map, id, n) ==
    IF HasKey(map, id)
    THEN [k \in 1..Len(map) |->
            IF map[k].id = id THEN [map[k] EXCEPT !.nodes = Append(@, n + 1)] ELSE map[k]]
    ELSE Append(map, [id |-> id, nodes |-> <<n + 1>>])

\* map.get(id)?.push(n) ?? map.set(id, [n])
MapPush(map, id, n) ==
    IF HasKey(map, id)
    THEN [k \in 1..Len(map) |->
            IF map[k].id = id THEN [map[k] EXCEPT !.nodes = Append(@, n)] ELSE map[k]]
    ELSE Append(map, [id |-> id, nodes |-> <<n>>])

-----------------------------------------------------------------------------
(* writeObjects *)

NumVertices(g) == Len(g.vertices) \div 3
NumIndices(g) == Len(g.indices) \div 3
Triplet(s, k) == <<s[3 * k - 2], s[3 * k - 1], s[3 * k]>>

\* let writingNormals
WritingNormals(g, skip) == ~skip /\ g.normals.present

\* indexOffset + fIt.next().value
FaceIndex(offset, local) == offset + local

\* The lines one mesh pushes to output: its vertices, its normals, its faces.
MeshLines(node, g, offset, scale, skip) ==
    LET transform == NodeTransform(node)
        vs == [v \in 1..NumVertices(g) |->
                 VertexLine(Triplet(g.vertices, v), transform, scale)]
        ns == IF WritingNormals(g, skip)
              THEN [k \in 1..(Len(g.normals.data) \div 3) |->
                      NormalLine(Triplet(g.normals.data, k), transform)]
              ELSE <<>>
        faces == [f \in 1..NumIndices(g) |->
                    LET t == Triplet(g.indices, f)
                    IN FaceString(FaceIndex(offset, t[1]), FaceIndex(offset, t[2]),
                                  FaceIndex(offset, t[3]), WritingNormals(g, skip))]
    IN vs \o ns \o faces

\* A slip: the offset advanced by the number of triangles.
NextIndexOffsetByTriangles(offset, g) == offset + NumIndices(g)

\* indexOffset += numVertices
NextIndexOffset(offset, g) == offset + NumVertices(g)

\* output.length > 50000
ShouldFlush(out, T) == Len(out) > T

\* What a geometry that is not a mesh adds to the log: writeObjects has no else branch.
SkippedGeometryLog(g) == <<>>

\* One iteration of nodes.forEach on the writer's state st = [file, output,
\* indexOffset, thrown, log].
HandleNode(st, nodeId, T) ==
    LET node == nodes[nodeId + 1] IN
    IF node.kind # "Object" THEN [st EXCEPT !.thrown = TRUE]
    ELSE LET g == geometries[node.geometry] IN
         IF g.kind = "Mesh" THEN
            LET out == st.output \o MeshLines(node, g, st.indexOffset, rootScale, skipNormals)
                off == NextIndexOffset(st.indexOffset, g)
            IN IF ShouldFlush(out, T)
               THEN [st EXCEPT !.file = AppendFileSync(@, Join(out) \o <<NL>>),
                               !.output = <<>>, !.indexOffset = off]
               ELSE [st EXCEPT !.output = out, !.indexOffset = off]
         ELSE [st EXCEPT !.log = @ \o SkippedGeometryLog(g)]

\* output.push("o " + id)
PushHeader(st, id) == [st EXCEPT !.output = Append(@, ObjectLine(id))]

RECURSIVE WriteMembers(_, _, _, _)
\* nodes.forEach from member k on.
WriteMembers(st, members, k, T) ==
    IF k > Len(members) \/ st.thrown THEN st
    ELSE WriteMembers(HandleNode(st, members[k], T), members, k + 1, T)

RECURSIVE WriteGroups(_, _, _, _)
\* objectNodes.forEach from group g on.
WriteGroups(st, map, g, T) ==
    IF g > Len(map) \/ st.thrown THEN st
    ELSE WriteGroups(WriteMembers(PushHeader(st, map[g].id), map[g].nodes, 1, T),
                     map, g + 1, T)

\* The whole of writeObjects(objectNodes, ...) run with flush threshold T on a
\* file `file`: the file it leaves.
WriteObjects(map, file, T) ==
    LET st0 == [file |-> WriteFileSync(file, <<>>), output |-> <<>>, indexOffset |-> 1,
                thrown |-> FALSE, log |-> <<>>]
        st == WriteGroups(st0, map, 1, T)
    IN IF st.thrown THEN st.file ELSE AppendFileSync(st.file, Join(st.output))

-----------------------------------------------------------------------------
(* write, step by step *)

\* The Map the running writeObjects call iterates.
ObjectNodes == IF phase = OutputPath THEN buildingNodes ELSE openingNodes

\* The writer's state as HandleNode takes it.
WriterState == [file |-> fs[phase], output |-> output, indexOffset |-> indexOffset,
                thrown |-> FALSE, log |-> log]

Idle ==
    /\ pc = "start"
    /\ rootScale = 0
    /\ i = 0
    /\ buildingNodes = <<>>
    /\ openingNodes = <<>>
    /\ phase = OutputPath
    /\ gidx = 0
    /\ nidx = 0
    /\ output = <<>>
    /\ indexOffset = 1
    /\ log = <<>>
    /\ written = [p \in Paths |-> <<>>]
    /\ pushed = [p \in Paths |-> <<>>]

\* Before write is called: a scene, an optional property database, the options and
\* whatever the output directory held.
Init ==
    /\ nodes \in Scenes
    /\ geometries = SceneGeometries
    /\ metadata = Unit("m")
    /\ propdb \in {NoDb, SceneDb}
    /\ skipNormals \in BOOLEAN
    /\ threshold \in Thresholds
    /\ \E f \in FileSystems : dirExists = f.dir /\ fs = f.files
    /\ before = fs
    /\ Idle

\* fse.mkdirpSync(outputDir); const rootScale = this.getRootScale(imf); the call of
\* getObjectNodes up to its loop.
Start ==
    /\ pc = "start"
    /\ dirExists' = TRUE
    /\ rootScale' = GetRootScale(metadata)
    /\ i' = 0
    /\ buildingNodes' = <<>>
    /\ openingNodes' = <<>>
    /\ pc' = IF Len(nodes) = 0 THEN "writeObjects" ELSE "getObjectNodes"
    /\ UNCHANGED <<inputs, fs, phase, gidx, nidx, output, indexOffset, log, written, pushed>>

\* One iteration of the loop of getObjectNodes; the last one returns the two maps.
ClassifyNode ==
    /\ pc = "getObjectNodes"
    /\ i < Len(nodes)
    /\ LET node == nodes[i + 1] IN
        IF node.kind # "Object"
        THEN /\ log' = Append(log, "Skipping node type " \o node.kind)
             /\ UNCHANGED <<buildingNodes, openingNodes>>
        ELSE LET id == GroupId(propdb, node.dbid) IN
             /\ log' = log
             /\ IF IsOpening(propdb, node.dbid)
                THEN /\ openingNodes' = MapPush(openingNodes, id, i)
                     /\ buildingNodes' = buildingNodes
                ELSE /\ buildingNodes' = MapPush(buildingNodes, id, i)
                     /\ openingNodes' = openingNodes
    /\ i' = i + 1
    /\ pc' = IF i + 1 < Len(nodes) THEN "getObjectNodes" ELSE "writeObjects"
    /\ UNCHANGED <<inputs, dirExists, fs, rootScale, phase, gidx, nidx, output,
                   indexOffset, written, pushed>>

\* writeObjects up to objectNodes.forEach: the file is created or truncated.
WriteBegin ==
    /\ pc = "writeObjects"
    /\ fs' = [fs EXCEPT ![phase] = WriteFileSync(@, <<>>)]
    /\ output' = <<>>
    /\ indexOffset' = 1
    /\ gidx' = 0
    /\ nidx' = 0
    /\ pc' = "groups"
    /\ UNCHANGED <<inputs, dirExists, rootScale, i, buildingNodes, openingNodes, phase,
                   log, written, pushed>>

\* objectNodes.forEach: the next group's header line.
WriteHeader ==
    /\ pc = "groups"
    /\ gidx < Len(ObjectNodes)
    /\ output' = PushHeader(WriterState, ObjectNodes[gidx + 1].id).output
    /\ pushed' = [pushed EXCEPT ![phase] = Append(@, ObjectLine(ObjectNodes[gidx + 1].id))]
    /\ nidx' = 0
    /\ pc' = "members"
    /\ UNCHANGED <<inputs, dirExists, fs, rootScale, i, buildingNodes, openingNodes,
                   phase, gidx, indexOffset, log, written>>

\* nodes.forEach: the next member of the current group.
WriteNode ==
    /\ pc = "members"
    /\ LET members == ObjectNodes[gidx + 1].nodes
           nodeId == members[nidx + 1]
           node == nodes[nodeId + 1]
           st == HandleNode(WriterState, nodeId, threshold)
           isMesh == node.kind = "Object" /\ geometries[node.geometry].kind = "Mesh"
       IN /\ fs' = [fs EXCEPT ![phase] = st.file]
          /\ output' = st.output
          /\ indexOffset' = st.indexOffset
          /\ log' = st.log
          /\ written' = IF isMesh THEN [written EXCEPT ![phase] = Append(@, nodeId)]
                        ELSE written
          /\ pushed' = IF isMesh
                       THEN [pushed EXCEPT ![phase] =
                               @ \o MeshLines(node, geometries[node.geometry], indexOffset,
                                              rootScale, skipNormals)]
                       ELSE pushed
          /\ IF st.thrown THEN pc' = "error" /\ UNCHANGED <<gidx, nidx>>
             ELSE IF nidx + 1 < Len(members)
                  THEN pc' = "members" /\ nidx' = nidx + 1 /\ gidx' = gidx
                  ELSE pc' = "groups" /\ nidx' = 0 /\ gidx' = gidx + 1
    /\ UNCHANGED <<inputs, dirExists, rootScale, i, buildingNodes, openingNodes, phase>>

\* After objectNodes.forEach: the final append; write then calls writeObjects for
\* the openings, or is past both calls.
WriteEnd ==
    /\ pc = "groups"
    /\ gidx = Len(ObjectNodes)
    /\ fs' = [fs EXCEPT ![phase] = AppendFileSync(@, Join(output))]
    /\ IF phase = OutputPath
       THEN phase' = OpeningPath /\ pc' = "writeObjects"
       ELSE phase' = phase /\ pc' = "finish"
    /\ UNCHANGED <<inputs, dirExists, rootScale, i, buildingNodes, openingNodes, gidx,
                   nidx, output, indexOffset, log, written, pushed>>

\* this.options.log(`Finished writing OBJ`)
Finish ==
    /\ pc = "finish"
    /\ log' = Append(log, "Finished writing OBJ")
    /\ pc' = "done"
    /\ UNCHANGED <<inputs, dirExists, fs, rootScale, i, buildingNodes, openingNodes,
                   phase, gidx, nidx, output, indexOffset, written, pushed>>

Next ==
    \/ Start
    \/ ClassifyNode
    \/ WriteBegin
    \/ WriteHeader
    \/ WriteNode
    \/ WriteEnd
    \/ Finish

Spec == Init /\ [][Next]_vars

-----------------------------------------------------------------------------
(* write on a scene of one mesh of one vertex: the unit table and the transforms *)

UnitValues == {"centimeter", "cm", "millimeter", "mm", "foot", "ft", "inch", "in",
               "", "m", "meter", "parsec", "CM", "Inch"}
Units == {NoUnit} \cup {Unit(s) : s \in UnitValues}

Coords == (0 - MaxCoord)..MaxCoord
Points == {<<x, y, z>> : x \in Coords, y \in Coords, z \in Coords}

\* A column-major rotation by a quarter turn about z, then a translation.
QuarterTurnZ(t) == <<0, 1, 0, 0,  -1, 0, 0, 0,  0, 0, 1, 0,  t[1], t[2], t[3], 1>>

VertexTransforms ==
    { NoTransform,
      MatrixTransform(Identity),
      MatrixTransform(Translation(<<1, 2, 3>>)),
      MatrixTransform(Translation(<<-1, 0, 0>>)),
      MatrixTransform(QuarterTurnZ(<<0, 0, 0>>)),
      MatrixTransform(QuarterTurnZ(<<5, 0, 0>>)),
      DecomposedTransform(<<>>, <<>>, <<>>),
      DecomposedTransform(<<>>, <<>>, <<1, 2, 3>>),
      DecomposedTransform(<<0, 0, 1, 0>>, <<>>, <<>>),
      DecomposedTransform(<<0, 0, 1, 0>>, <<2, 3, 1>>, <<1, 0, 0>>) }

InitVertex ==
    /\ \E tr \in VertexTransforms : nodes = <<ObjectNode(7, 1, tr)>>
    /\ \E p \in Points : geometries = <<Mesh(p, <<0, 0, 0>>, TRUE, <<0, 0, 1>>)>>
    /\ metadata \in Units
    /\ propdb = NoDb
    /\ skipNormals = FALSE
    /\ threshold = THRESHOLD
    /\ dirExists = FALSE
    /\ fs = [p \in Paths |-> AbsentFile]
    /\ before = fs
    /\ Idle

SpecVertex == InitVertex /\ [][Next]_vars

-----------------------------------------------------------------------------
(* Reading a file back *)

\* The lines of a file's data: its tokens without the newlines.
IsLine(tok) == tok.t # "NL"
LinesOf(data) == SelectSeq(data, IsLine)
IsV(tok) == tok.t = "v"
IsF(tok) == tok.t = "f"
IsO(tok) == tok.t = "o"

\* Everything the running (or finished) writeObjects call on path p has produced
\* so far: the file's lines, and the buffered ones while p is being written.
Produced(p) ==
    LinesOf(fs[p].data) \o (IF p = phase /\ pc \in {"groups", "members"} THEN output ELSE <<>>)

\* The Map writeObjects is (or was, or will be) called with for path p.
MapOf(p) == IF p = OutputPath THEN buildingNodes ELSE openingNodes

\* The number of lines of kind t ("v", "vn", "f", "o") in a sequence of lines.
CountOf(lines, t) == Len(SelectSeq(lines, LAMBDA tok : tok.t = t))

-----------------------------------------------------------------------------
(* C1: the file does not depend on the flush threshold *)

\* C1: once write has returned, each output file is byte for byte the file
\* writeObjects leaves when run on the same bucket with any other flush threshold,
\* in particular with one so large that nothing is flushed before the final append.
C1_ThresholdIndependent ==
    pc = "done" =>
        \A p \in Paths : \A T \in Thresholds :
            fs[p].data = WriteObjects(MapOf(p), before[p], T).data

-----------------------------------------------------------------------------
(* C2: face indices *)

RECURSIVE SumVertices(_)
\* The vertex counts of the meshes of the nodes ids, summed.
SumVertices(ids) ==
    IF ids = <<>> THEN 0
    ELSE Len(geometries[nodes[Head(ids) + 1].geometry].vertices) \div 3 + SumVertices(Tail(ids))

\* The corner indices 1 + (vertices written earlier) + local index of the j-th
\* mesh written, one triple per triangle.
ExpectedFaceIndices(ids, j) ==
    LET g == geometries[nodes[ids[j] + 1].geometry]
        base == 1 + SumVertices(SubSeq(ids, 1, j - 1))
    IN [f \in 1..(Len(g.indices) \div 3) |->
          <<base + g.indices[3 * f - 2], base + g.indices[3 * f - 1], base + g.indices[3 * f]>>]

RECURSIVE ExpectedFaces(_, _)
ExpectedFaces(ids, j) ==
    IF j > Len(ids) THEN <<>> ELSE ExpectedFaceIndices(ids, j) \o ExpectedFaces(ids, j + 1)

FaceIndicesOf(lines) ==
    LET faces == SelectSeq(lines, IsF) IN [k \in 1..Len(faces) |-> faces[k].idx]

\* The j-th mesh written to p owns the vertex lines base..base+n-1 of p, and each of
\* its face corners names one of them: the line of the vertex the corner is.
FacesPointAtOwnVertices(p) ==
    LET ids == written[p]
        vlines == SelectSeq(Produced(p), IsV)
    IN \A j \in 1..Len(ids) :
        LET node == nodes[ids[j] + 1]
            g == geometries[node.geometry]
            base == 1 + SumVertices(SubSeq(ids, 1, j - 1))
        IN \A f \in 1..Len(g.indices) :
            LET local == g.indices[f]
                line == base + local
            IN /\ line \in base..(base + Len(g.vertices) \div 3 - 1)
               /\ line <= Len(vlines)
               /\ vlines[line] = VertexLine(<<g.vertices[3 * local + 1], g.vertices[3 * local + 2],
                                              g.vertices[3 * local + 3]>>,
                                            NodeTransform(node), rootScale)

C2_State ==
    /\ \A p \in Paths :
        /\ FaceIndicesOf(Produced(p)) = ExpectedFaces(written[p], 1)
        /\ FacesPointAtOwnVertices(p)
    /\ pc \in {"groups", "members"} => indexOffset = 1 + SumVertices(written[phase])

C2_OffsetStep ==
    (pc \in {"groups", "members"} /\ pc' \in {"groups", "members"}) => indexOffset' >= indexOffset

\* C2: in each output file every face index is 1 + the vertex counts of the meshes
\* written earlier to that file (whatever their group) + the corner's local index, and
\* so names a vertex line of its own mesh; the running offset of a writeObjects call
\* is 1 + the vertices written so far and never decreases during the call.
C2_FaceIndices == []C2_State /\ [][C2_OffsetStep]_vars

\* Two meshes of two different groups were written to output.obj.
C2_Witness ==
    /\ pc = "done"
    /\ Len(written[OutputPath]) >= 2
    /\ Len(buildingNodes) >= 2
    /\ \E g1, g2 \in 1..Len(buildingNodes) :
        /\ g1 # g2
        /\ written[OutputPath][1] \in {buildingNodes[g1].nodes[k] : k \in 1..Len(buildingNodes[g1].nodes)}
        /\ written[OutputPath][2] \in {buildingNodes[g2].nodes[k] : k \in 1..Len(buildingNodes[g2].nodes)}

-----------------------------------------------------------------------------
(* C3: normal indices *)

\* C3: wherever a file has a face line of the v//n form, the lines before it hold
\* exactly one vn line per v line, so that normal index n = v exists and is the normal
\* of vertex v.
C3_NormalPerVertex ==
    \A p \in Paths :
        LET lines == Produced(p) IN
        \A k \in 1..Len(lines) :
            (lines[k].t = "f" /\ lines[k].normals) =>
                /\ CountOf(SubSeq(lines, 1, k - 1), "vn") = CountOf(SubSeq(lines, 1, k - 1), "v")
                /\ \A c \in 1..3 : lines[k].idx[c] <= CountOf(lines, "vn")

-----------------------------------------------------------------------------
(* C4: a Matrix transform is column-major *)

\* The affine image of point q under the matrix whose column-major elements are m:
\* column c is m[4c..4c+3], the translation m[12..14] (m[k] being element k-1).
AffineImage(m, q) ==
    << m[1] * q[1] + m[5] * q[2] + m[9] * q[3] + m[13],
       m[2] * q[1] + m[6] * q[2] + m[10] * q[3] + m[14],
       m[3] * q[1] + m[7] * q[2] + m[11] * q[3] + m[15] >>

IsAffine(m) == m[4] = 0 /\ m[8] = 0 /\ m[12] = 0 /\ m[16] = 1

\* C4: every vertex line written for a node with a Matrix transform holds the affine
\* image of the vertex under that column-major matrix, times the root scale, rounded
\* to 4 decimals.
C4_MatrixIsColumnMajor ==
    \A p \in Paths :
        LET ids == written[p]
            vlines == SelectSeq(Produced(p), IsV)
        IN \A j \in 1..Len(ids) :
            LET node == nodes[ids[j] + 1]
                g == geometries[node.geometry]
                base == SumVertices(SubSeq(ids, 1, j - 1))
            IN (node.transform.kind = "Matrix" /\ IsAffine(node.transform.elements)) =>
                \A v \in 1..(Len(g.vertices) \div 3) :
                    LET img == AffineImage(node.transform.elements,
                                           <<g.vertices[3 * v - 2], g.vertices[3 * v - 1],
                                             g.vertices[3 * v]>>)
                    IN vlines[base + v].c = << Num(RoundPos(img[1] * rootScale, 1)),
                                              Num(RoundPos(img[2] * rootScale, 1)),
                                              Num(RoundPos(img[3] * rootScale, 1)) >>

-----------------------------------------------------------------------------
(* C5, C6: grouping and classification *)

Members(map, g) == {map[g].nodes[k] : k \in 1..Len(map[g].nodes)}

InMap(map, n) == \E g \in 1..Len(map) : n \in Members(map, g)

\* The Object nodes getObjectNodes has classified so far.
Classified == {n \in 0..(i - 1) : nodes[n + 1].kind = "Object"}

\* Node n's property Element:IfcExportAs is exactly IfcOpeningElement.
ExportsAsOpening(n) ==
    /\ propdb.present
    /\ "Element:IfcExportAs" \in DOMAIN propdb.props[nodes[n + 1].dbid]
    /\ propdb.props[nodes[n + 1].dbid]["Element:IfcExportAs"] = "IfcOpeningElement"

\* findPropertyRecursive returns the same value for nodes a and b of different dbid.
SameFoundValue(a, b) ==
    /\ propdb.present
    /\ nodes[a + 1].dbid # nodes[b + 1].dbid
    /\ propdb.found[nodes[a + 1].dbid].some
    /\ propdb.found[nodes[b + 1].dbid].some
    /\ propdb.found[nodes[a + 1].dbid].v = propdb.found[nodes[b + 1].dbid].v

SameGroup(a, b) ==
    \E p \in Paths : \E g \in 1..Len(MapOf(p)) : {a, b} \subseteq Members(MapOf(p), g)

\* The key under which node n was grouped.
KeyOf(n) ==
    LET p == CHOOSE q \in Paths : InMap(MapOf(q), n)
        g == CHOOSE h \in 1..Len(MapOf(p)) : n \in Members(MapOf(p), h)
    IN MapOf(p)[g].id

\* The first classified node grouped under key id, in either bucket.
FirstInScene(id) ==
    CHOOSE n \in Classified : KeyOf(n) = id /\ \A m \in Classified : KeyOf(m) = id => n <= m

MembersIncrease(map) ==
    \A g \in 1..Len(map) : \A k \in 1..(Len(map[g].nodes) - 1) :
        map[g].nodes[k] < map[g].nodes[k + 1]

\* C5 as stated: two classified Object nodes of different dbid with the same
\* findPropertyRecursive value are in one group whatever their other properties; a
\* Map's groups come in the order their keys first appear in the scene; a group's
\* members increase.
C5_SameValueSameGroup ==
    /\ \A a, b \in Classified : SameFoundValue(a, b) => SameGroup(a, b)
    /\ \A p \in Paths : \A g, h \in 1..Len(MapOf(p)) :
            g < h => FirstInScene(MapOf(p)[g].id) < FirstInScene(MapOf(p)[h].id)
    /\ \A p \in Paths : MembersIncrease(MapOf(p))

\* C5 amended: two classified Object nodes of different dbid with the same
\* findPropertyRecursive value and the same classification (both opening or both
\* regular) are in one group; with different classifications they are in two groups of
\* the same key, one per Map.  Within a Map keys are distinct, groups come in the order
\* of their first member (the key's first appearance among that Map's nodes), and a
\* group's members increase.
C5_SameValueSameBucketSameGroup ==
    /\ \A a, b \in Classified :
        SameFoundValue(a, b) =>
            /\ (ExportsAsOpening(a) = ExportsAsOpening(b)) => SameGroup(a, b)
            /\ (ExportsAsOpening(a) # ExportsAsOpening(b)) =>
                    ~SameGroup(a, b) /\ KeyOf(a) = KeyOf(b)
    /\ \A p \in Paths : \A g, h \in 1..Len(MapOf(p)) :
            g < h => /\ MapOf(p)[g].id # MapOf(p)[h].id
                     /\ MapOf(p)[g].nodes[1] < MapOf(p)[h].nodes[1]
    /\ \A p \in Paths : MembersIncrease(MapOf(p))

\* Two regular nodes of different dbid and the same found value share a group, after
\* an opening node with the same value opened a group of that key in the other Map.
C5_Witness ==
    /\ pc = "done"
    /\ \E a, b, c \in Classified :
        /\ SameFoundValue(a, b) /\ ~ExportsAsOpening(a) /\ ~ExportsAsOpening(b)
        /\ SameGroup(a, b)
        /\ SameFoundValue(a, c) /\ ExportsAsOpening(c) /\ c < a /\ c < b

\* C6: a classified Object node is in the opening Map exactly when its property
\* Element:IfcExportAs is exactly IfcOpeningElement, and in the regular Map exactly
\* when it is not, whatever its key and whatever the nodes sharing its key.
C6_OpeningIffExportAs ==
    \A n \in Classified :
        /\ InMap(openingNodes, n) <=> ExportsAsOpening(n)
        /\ InMap(buildingNodes, n) <=> ~ExportsAsOpening(n)

\* An opening node and a regular node share a key, and a node whose property differs
\* from IfcOpeningElement only by case is regular.
C6_Witness ==
    /\ pc = "done"
    /\ \E a, b, c \in Classified :
        /\ InMap(openingNodes, a) /\ InMap(buildingNodes, b) /\ KeyOf(a) = KeyOf(b)
        /\ InMap(buildingNodes, c)
        /\ propdb.props[nodes[c + 1].dbid]["Element:IfcExportAs"] = "ifcopeningelement"

-----------------------------------------------------------------------------
(* C7: no property database *)

ObjectDbids == {nodes[k].dbid : k \in {n \in 1..Len(nodes) : nodes[n].kind = "Object"}}

\* C7: without a property database write raises no error, the opening Map stays
\* empty, every classified Object node is in the regular group dbid-<dbid>; and once
\* write has returned output.obj has one header o dbid-<dbid> per distinct dbid and
\* openings.obj holds nothing.
C7_NoPropertyDb ==
    ~propdb.present =>
        /\ pc # "error"
        /\ openingNodes = <<>>
        /\ \A n \in Classified :
            \E g \in 1..Len(buildingNodes) :
                /\ buildingNodes[g].id = "dbid-" \o ToString(nodes[n + 1].dbid)
                /\ n \in Members(buildingNodes, g)
        /\ pc = "done" =>
            LET headers == SelectSeq(LinesOf(fs[OutputPath].data), IsO) IN
            /\ Len(headers) = Cardinality(ObjectDbids)
            /\ {headers[k].id : k \in 1..Len(headers)}
                 = {"dbid-" \o ToString(d) : d \in ObjectDbids}
            /\ fs[OpeningPath].exists
            /\ fs[OpeningPath].data = <<>>

\* No database; two Object nodes share a dbid and a third has another.
C7_Witness ==
    /\ pc = "done"
    /\ ~propdb.present
    /\ \E a, b, c \in Classified :
        /\ a # b
        /\ nodes[a + 1].dbid = nodes[b + 1].dbid
        /\ nodes[c + 1].dbid # nodes[a + 1].dbid

-----------------------------------------------------------------------------
(* C8: both files are created and truncated *)

\* C8: once write has returned, the directory and both files exist, each file holds
\* the lines this run pushed for it and nothing of what it held before, and for a
\* scene without nodes both files are empty.
C8_BothFilesCreated ==
    pc = "done" =>
        /\ dirExists
        /\ \A p \in Paths :
            /\ fs[p].exists
            /\ LinesOf(fs[p].data) = pushed[p]
            /\ \A k \in 1..Len(fs[p].data) : fs[p].data[k] # ObjectLine("stale")
            /\ MapOf(p) = <<>> => fs[p].data = <<>>
        /\ Len(nodes) = 0 => \A p \in Paths : fs[p].data = <<>>

\* write returned on a scene without nodes in a directory whose files held lines.
C8_Witness ==
    /\ pc = "done"
    /\ Len(nodes) = 0
    /\ \A p \in Paths : before[p].data = StaleData /\ fs[p].exists /\ fs[p].data = <<>>

-----------------------------------------------------------------------------
(* C9: a geometry that is not a mesh *)

IsSkippedGeometry(n) ==
    nodes[n + 1].kind = "Object" /\ geometries[nodes[n + 1].geometry].kind # "Mesh"

IsGeometrySkipMessage(msg) ==
    msg \in {"Skipping geometry type " \o geometries[g].kind : g \in 1..Len(geometries)}

\* C9: write does not abort on a member whose geometry is not a mesh; such a member
\* adds no vertex line and leaves the running offset as it was; and once write has
\* returned the log holds one skip message per such member.
C9_SkipIsLogged ==
    /\ pc # "error"
    /\ \A p \in Paths : CountOf(Produced(p), "v") = SumVertices(written[p])
    /\ pc \in {"groups", "members"} => indexOffset = 1 + SumVertices(written[phase])
    /\ pc = "done" =>
        Len(SelectSeq(log, IsGeometrySkipMessage))
            = Cardinality({n \in 0..(Len(nodes) - 1) : IsSkippedGeometry(n)})

-----------------------------------------------------------------------------
(* C10: the unit table *)

\* C10: once getRootScale has returned, the root scale is 0.01 for centimeter and cm,
\* 0.001 for millimeter and mm, 0.3048 for foot and ft, 0.0254 for inch and in, and
\* 1.0 for any other value, for the empty value and without the key; write does not
\* fail.
C10_RootScaleTable ==
    pc # "start" =>
        LET known == {"centimeter", "cm", "millimeter", "mm", "foot", "ft", "inch", "in"} IN
        /\ pc # "error"
        /\ (metadata.present /\ metadata.value \in {"centimeter", "cm"}) => rootScale = 100
        /\ (metadata.present /\ metadata.value \in {"millimeter", "mm"}) => rootScale = 10
        /\ (metadata.present /\ metadata.value \in {"foot", "ft"}) => rootScale = 3048
        /\ (metadata.present /\ metadata.value \in {"inch", "in"}) => rootScale = 254
        /\ (~metadata.present \/ metadata.value \notin known) => rootScale = 10000

\* write returned on a scene in inches, and on the way scaled a vertex.
C10_Witness ==
    /\ pc = "done"
    /\ metadata = Unit("in")
    /\ rootScale = 254
    /\ \E k \in 1..Len(pushed[OutputPath]) :
        pushed[OutputPath][k].t = "v" /\ pushed[OutputPath][k].c[1] = Num(254)

-----------------------------------------------------------------------------
(* C11: the line buffer is bounded by the flush threshold *)

\* The running writeObjects call has just handled a member node.
NodeHandled ==
    \/ pc = "members" /\ nidx > 0
    \/ pc = "groups" /\ gidx > 0

\* C11: in writeObjects, after any member node has been handled, whatever the
\* kind of its geometry, the line buffer holds at most as many lines as the flush
\* threshold.
C11_BufferBounded == NodeHandled => Len(output) <= threshold

-----------------------------------------------------------------------------
(* C12: the two Maps hold the scene's Object nodes, each once, and nothing else *)

\* The places of the two Maps: path, group, position in the group's members.
SlotsOf(p) ==
    UNION { {<<p, g, k>> : k \in 1..Len(MapOf(p)[g].nodes)} : g \in 1..Len(MapOf(p)) }
Slots == SlotsOf(OutputPath) \cup SlotsOf(OpeningPath)
IndexAt(s) == MapOf(s[1])[s[2]].nodes[s[3]]

\* How many times node index n is stored over both Maps.
Occurrences(n) == Cardinality({s \in Slots : IndexAt(s) = n})

\* C12: writeObjects never throws "Node kind ... should have been excluded"; every
\* index stored in either Map is the index of an Object node of the scene that
\* getObjectNodes has gone through; every Object node gone through is stored exactly
\* once over both Maps, and a node that is not an Object is stored nowhere.
C12_OnlyObjectsGrouped ==
    /\ pc # "error"
    /\ \A s \in Slots : /\ IndexAt(s) \in 0..(i - 1)
                         /\ nodes[IndexAt(s) + 1].kind = "Object"
    /\ \A n \in 0..(i - 1) :
        Occurrences(n) = IF nodes[n + 1].kind = "Object" THEN 1 ELSE 0

\* write returned on a scene with a node that is not an Object and with Object
\* nodes in both Maps, every group of both Maps written.
C12_Witness ==
    /\ pc = "done"
    /\ \E n \in 1..Len(nodes) : nodes[n].kind # "Object"
    /\ buildingNodes # <<>>
    /\ openingNodes # <<>>
    /\ \A p \in Paths : CountOf(pushed[p], "o") = Len(MapOf(p))

-----------------------------------------------------------------------------
(* C13: flushing keeps the pushed lines as they were pushed *)

\* The writeObjects call on path p is inside its loops; it has returned.
Running(p) == p = phase /\ pc \in {"groups", "members"}
Returned(p) == pc \in {"finish", "done"} \/ (p = OutputPath /\ phase = OpeningPath)

\* Each line of the data is a line of its own and no line is empty: a newline
\* follows a line, and a line is followed by a newline or ends the data.
LinesApart(data) ==
    \A k \in 1..Len(data) :
        /\ data[k] = NL => k > 1 /\ IsLine(data[k - 1])
        /\ (IsLine(data[k]) /\ k < Len(data)) => data[k + 1] = NL

\* C13: at every step of writeObjects the lines in the file followed by the lines
\* in the buffer are the lines pushed so far, in push order, each once; when
\* writeObjects has returned, the file's lines are all the pushed lines in order,
\* one per line and with no blank line between them; for every flush threshold.
C13_FlushKeepsLines ==
    \A p \in Paths :
        /\ Running(p) => LinesOf(fs[p].data) \o output = pushed[p]
        /\ Returned(p) => /\ LinesOf(fs[p].data) = pushed[p]
                          /\ LinesApart(fs[p].data)

\* write returned; output.obj was flushed after each of at least two meshes and the
\* final append added lines pushed after the last flush.
C13_Witness ==
    /\ pc = "done"
    /\ threshold = 1
    /\ Len(written[OutputPath]) >= 2
    /\ fs[OutputPath].data # <<>>
    /\ IsLine(fs[OutputPath].data[Len(fs[OutputPath].data)])

====
